---------------------------- MODULE Spec2Model ----------------------------
(***************************************************************************)
(* Model of the deepdive calibration node (deepdive_calibrate): the        *)
(* recording/trigger state machine, the ingestion callbacks, the idle      *)
(* timer and the construction of the bundle-adjustment problem in Solve(). *)
(*                                                                         *)
(* Units.  The clock (ros::Time::now()) is counted in whole seconds.       *)
(* Angles are in milliradians, pulse durations in the unit of the message. *)
(* Parameter blocks (poses, calibration vectors) carry an abstract value   *)
(* drawn from Vals: the model follows which block is changed, not the      *)
(* numerics of the optimizer.                                              *)
(***************************************************************************)
EXTENDS Integers, Sequences, FiniteSets, TLC

-----------------------------------------------------------------------------
(* Bounds of the model                                                     *)

\* the clock runs over StartTime..MaxTime
MaxTime == 2
\* longest pulse list of an incoming light message
MaxPulses == 4
\* number of epochs a recorded session spans
MaxEpochs == 2

-----------------------------------------------------------------------------
(* Program constants and configuration                                     *)

\* thresholds/count
thresh_count_ == 4
\* thresholds/angle, in degrees
thresh_angle_ == 60
\* thresholds/duration
thresh_duration_ == 1
\* resolution of the pose graph, in seconds
res_ == 2
\* ros::Duration(1.0) of the one-shot idle timer
TimerPeriod == 1
\* number of photosensors of a tracker
NUM_SENSORS == 5
\* obj.size() > 3: least number of correspondences minus one
MinCorrespondences == 3

\* the clock reading when the node starts
StartTime == 1

\* abstract values of a parameter block
Vals == {0, 1}

\* serial numbers in std::map (lexicographic) order
SerialOrder == <<"L1", "L2", "LX", "T1", "T2", "TX">>

\* lighthouses and trackers named by the configuration file
ConfiguredLighthouses == {"L1"}
ConfiguredTrackers == {"T1"}

\* serials that light messages may carry (one of them unknown to the tables)
MsgLighthouses == ConfiguredLighthouses \cup {"LX"}
MsgTrackers == ConfiguredTrackers \cup {"TX"}

\* frame names
frame_world_ == "world"
frame_body_ == "body"

-----------------------------------------------------------------------------
(* Generic helpers                                                         *)

MinOf(S) == CHOOSE x \in S : \A y \in S : x <= y

MaxOf(S) == CHOOSE x \in S : \A y \in S : y <= x

\* no clock reading and no epoch of the model lies beyond the horizon
Horizon == (IF MaxTime > res_ * MaxEpochs THEN MaxTime ELSE res_ * MaxEpochs) + res_

\* the elements of a set of clock readings or epochs in increasing order
SortedSeq(S) == SelectSeq([i \in 1..(Horizon + 1) |-> i - 1], LAMBDA t : t \in S)

\* the serials of S in map order
SortedSerials(S) == SelectSeq(SerialOrder, LAMBDA s : s \in S)

\* std::map insert-or-assign
Put(f, k, v) == [x \in (DOMAIN f) \cup {k} |-> IF x = k THEN v ELSE f[x]]

\* the empty std::map
EmptyMap == [x \in {} |-> 0]

-----------------------------------------------------------------------------
(* Messages                                                                *)

\* pulse angles (mrad) and durations a message may carry: one below and one
\* above each rejection threshold
Angles == {500, 1200}
Durations == {500000, 2000000}

GoodAngle == MinOf(Angles)
GoodDuration == MaxOf(Durations)

\* deepdive_ros::Pulse
Pulse(s, a, d) == [sensor |-> s, angle |-> a, duration |-> d]

\* a pulse list of n pulses from sensors 0..n-1; the pulse at position k has
\* angle a and duration d, the others are far from both thresholds
MkPulses(n, k, a, d) ==
  [i \in 1..n |-> IF i = k THEN Pulse(i - 1, a, d)
                           ELSE Pulse(i - 1, GoodAngle, GoodDuration)]

\* pulse lists whose pulses are all far from the thresholds: one pulse short
\* of thresholds/count, and just enough pulses
PlainPulseLists ==
  {MkPulses(n, 0, GoodAngle, GoodDuration) : n \in {thresh_count_ - 1, thresh_count_}}

\* pulse lists with one pulse of every angle and duration at every position
MixedPulseLists ==
  {MkPulses(n, k, a, d) : n \in (thresh_count_ - 1)..MaxPulses, k \in 1..MaxPulses,
                          a \in Angles, d \in Durations}

\* deepdive_ros::Light
LightMsgsOver(lists) ==
  [tracker : MsgTrackers, lighthouse : MsgLighthouses, axis : {0, 1}, pulses : lists]

\* the light messages of the state machine
LightMsgs == LightMsgsOver(PlainPulseLists)

\* geometry_msgs::TransformStamped of a tf2_msgs::TFMessage
Transforms ==
  [frame_id : {frame_world_}, child_frame_id : {frame_body_, "other"}, value : {0}]

\* tf2_msgs::TFMessage: a list of at most two transforms
TFMsgs == UNION {[1..n -> Transforms] : n \in 0..2}

-----------------------------------------------------------------------------
(* Pulse rejection of LightCallback                                        *)

\* thresh_angle_ / 57.2958: degrees to radians, here to milliradians
AngleLimit == (thresh_angle_ * 10000000) \div 572958

\* thresh_duration_ / 1e-6
DurationLimit == thresh_duration_ * 1000000

\* the condition under which the loop erases a pulse
PulseErased(p) == p.angle > AngleLimit /\ p.duration < DurationLimit

\* the pulse list after the erase loop: the surviving pulses in their order
FilterPulses(pulses) == SelectSeq(pulses, LAMBDA p : ~PulseErased(p))

-----------------------------------------------------------------------------
(* State                                                                   *)

VARIABLES
  recording_,     \* bool recording_
  measurements_,  \* MeasurementMap: clock reading -> stored light message
  corrections_,   \* CorrectionMap: clock reading -> stored transform
  lighthouses_,   \* LighthouseMap: serial -> [ready, vTl, params]
  trackers_,      \* TrackerMap: serial -> [ready, bTh, tTh, sensors]
  wTv_,           \* world -> vive registration
  now,            \* ros::Time::now()
  timer_,         \* the one-shot idle timer: armed, and when it is due
  pc,             \* "spin": between callbacks; "Solve": inside Solve();
                  \* "aborted": the process was terminated
  res,            \* std_srvs::Trigger::Response of the request being served
  solves,         \* calls of Solve() made by the request being served
  emitted,        \* what the last Solve() published, wrote or sent
  sent,           \* the transform set last passed to SendTransforms
  ev,             \* the callback dispatched last
  cfg,            \* the parameters read by main()
  problem,        \* the locals of the last Solve() when it ended
  clock,          \* filter node: ros::Time::now(), in half seconds
  last_,          \* filter node: ros::Time last_, in half seconds
  ready_,         \* filter node: bool ready_
  initialized_,   \* filter node: bool initialized_
  did             \* filter node: what the callback dispatched last did

\* the state of the filter node (deepdive_filter), a process of its own
filterVars == <<clock, last_, ready_, initialized_, did>>

\* the state of the calibration node
calibrateVars ==
  <<recording_, measurements_, corrections_, lighthouses_, trackers_, wTv_,
    now, timer_, pc, res, solves, emitted, sent, ev, cfg, problem>>

vars == <<calibrateVars, filterVars>>

-----------------------------------------------------------------------------
(* Solve(): bundling                                                       *)

\* round(t / res_) * res_ for t >= 0, res_ being the resolution main() read:
\* round() rounds halves away from zero
EpochOf(t) == ((2 * t + cfg.res_) \div (2 * cfg.res_)) * cfg.res_

\* the angles that measurement m pushes into bundle[..][..][..][s][a]
PulseAngles(m, s, a) ==
  IF m.axis = a
  THEN LET hits == SelectSeq(m.pulses, LAMBDA p : p.sensor = s)
       IN  [i \in 1..Len(hits) |-> hits[i].angle]
  ELSE <<>>

RECURSIVE SamplesFrom(_, _, _, _, _, _, _)
\* the bucket, had every measurement assigned its angles instead of pushing
\* them back
SamplesFrom_LastWins(M, ts, tr, lh, e, s, a) ==
  IF ts = <<>> THEN <<>>
  ELSE LET m == M[Head(ts)]
           here == IF m.tracker = tr /\ m.lighthouse = lh /\ EpochOf(Head(ts)) = e
                   THEN PulseAngles(m, s, a) ELSE <<>>
           rest == SamplesFrom(M, Tail(ts), tr, lh, e, s, a)
       IN  IF rest # <<>> THEN rest ELSE here

\* the bucket bundle[tr][lh][e][s][a] filled from the measurements at the
\* times ts (the store is walked in increasing time)
SamplesFrom(M, ts, tr, lh, e, s, a) ==
  IF ts = <<>> THEN <<>>
  ELSE LET m == M[Head(ts)]
           here == IF m.tracker = tr /\ m.lighthouse = lh /\ EpochOf(Head(ts)) = e
                   THEN PulseAngles(m, s, a) ELSE <<>>
       IN  here \o SamplesFrom(M, Tail(ts), tr, lh, e, s, a)

\* bundle[tr][lh][e][s][a] of the measurement store M: only the measurements of
\* axis a and epoch e can contribute
Samples(M, tr, lh, e, s, a) ==
  SamplesFrom(M, SelectSeq(SortedSeq(DOMAIN M), LAMBDA t : M[t].axis = a /\ EpochOf(t) = e),
              tr, lh, e, s, a)

\* the epochs of bundle[tr][lh]: those some pulse was pushed into
Epochs(M, tr, lh) ==
  {EpochOf(t) : t \in {u \in DOMAIN M : /\ M[u].tracker = tr
                                        /\ M[u].lighthouse = lh
                                        /\ Len(M[u].pulses) > 0}}

\* Mean(samples, out) succeeds when there is a sample to average
Mean(samples) == Len(samples) > 0

\* Correspondences taking a sensor with a mean on either axis
Correspondences_EitherAxis(M, tr, lh, e) ==
  {s \in 0..(NUM_SENSORS - 1) : \/ Mean(Samples(M, tr, lh, e, s, 0))
                                \/ Mean(Samples(M, tr, lh, e, s, 1))}

\* the sensors of one (tracker, lighthouse, epoch) that have a mean on both axes
Correspondences(M, tr, lh, e) ==
  {s \in 0..(NUM_SENSORS - 1) : /\ Mean(Samples(M, tr, lh, e, s, 0))
                                /\ Mean(Samples(M, tr, lh, e, s, 1))}

\* obj.size() > 3: the perspective-pose solve is attempted
BootstrapAttempted(M, tr, lh, e) ==
  Cardinality(Correspondences(M, tr, lh, e)) > MinCorrespondences

\* the keys of the buckets of bundle a pulse was pushed into
BundleKeys(M) ==
  UNION {{[tracker |-> M[t].tracker, lighthouse |-> M[t].lighthouse,
           epoch |-> EpochOf(t), sensor |-> M[t].pulses[i].sensor,
           axis |-> M[t].axis] : i \in 1..Len(M[t].pulses)} : t \in DOMAIN M}

\* the local bundle of Solve once the measurement store was walked
Bundle(M) ==
  [k \in BundleKeys(M) |->
     Samples(M, k.tracker, k.lighthouse, k.epoch, k.sensor, k.axis)]

\* the local corr of Solve once the correction store was walked: the store is
\* walked in increasing time, so the last correction of an epoch stays
Corr(C) ==
  [e \in {EpochOf(t) : t \in DOMAIN C} |->
     C[MaxOf({t \in DOMAIN C : EpochOf(t) = e})].value]

\* one (lighthouse, tracker, epoch) iteration of the bootstrap loops
GroupKey(lh, tr, e) == [lighthouse |-> lh, tracker |-> tr, epoch |-> e]

\* the groups of the store for which solvePnPRansac is called
AttemptedGroups(M, lhs, trs) ==
  {g \in [lighthouse : lhs, tracker : trs, epoch : {EpochOf(t) : t \in DOMAIN M}] :
     /\ g.epoch \in Epochs(M, g.tracker, g.lighthouse)
     /\ BootstrapAttempted(M, g.tracker, g.lighthouse, g.epoch)}

-----------------------------------------------------------------------------
(* Solve(): the ceres problem                                              *)

\* a parameter block, named by the array it points into
Blk(kind, serial, epoch) == [kind |-> kind, serial |-> serial, epoch |-> epoch]

NoEpoch == 0 - 1
\* the epoch standing for wTb.end(), the node std::prev may yield at begin()
EndEpoch == 0 - 2

RegistrationBlock == Blk("wTv", "", NoEpoch)

\* the four sub-blocks &wTb[e][0], &wTb[e][2], &wTb[e][3], &wTb[e][5]
PoseBlocks(e) ==
  {Blk("pos_xy", "", e), Blk("pos_z", "", e), Blk("rot_xy", "", e), Blk("rot_z", "", e)}

\* the parameter blocks of the GroupCost residual block of a group
GroupBlocks(g) ==
  {RegistrationBlock, Blk("vTl", g.lighthouse, NoEpoch)}
    \cup PoseBlocks(g.epoch)
    \cup {Blk("bTh", g.tracker, NoEpoch), Blk("tTh", g.tracker, NoEpoch),
          Blk("sensors", g.tracker, NoEpoch), Blk("params", g.lighthouse, NoEpoch)}

\* the locals of Solve before any measurement is read: ceres::Problem problem,
\* bundle, corr, the pose table wTb, the height statistic, the observation
\* count, the ground-truth path and what ceres::Solver::Summary reports
\* ("none" as long as ceres::Solve was not called); failed lists the groups
\* whose solvePnPRansac call returned false
EmptyProblem ==
  [blocks |-> {}, constant |-> {}, bundle |-> EmptyMap, corr |-> EmptyMap,
   wTb |-> EmptyMap, bearing |-> <<>>, motion |-> <<>>, heights |-> <<>>,
   failed |-> <<>>, count |-> 0, truth |-> {}, summary |-> "none",
   aborted |-> FALSE]

\* the value of a component of a body pose: the estimate of the perspective
\* pose solve of a group, the literal 0.0, or the mean of the heights fed
SeedValue(g) == [kind |-> "seed", of |-> <<g>>]
ZeroValue == [kind |-> "zero", of |-> <<>>]
MeanValue(heights) == [kind |-> "mean", of |-> heights]

\* problem.SetParameterBlockConstant(b): ceres aborts the process (LOG(FATAL))
\* when b was never added to the problem
SetParameterBlockConstant(P, b) ==
  IF P.aborted THEN P
  ELSE IF b \notin P.blocks THEN [P EXCEPT !.aborted = TRUE]
  ELSE [P EXCEPT !.constant = @ \cup {b}]

\* the motion block linking epoch e to its predecessor in wTb.  When e is the
\* first key, std::prev(wTb.begin()) is undefined: the iterator obtained is
\* either c itself (no block) or the end node (a block into the map header)
AddMotion(P, par, e, prevOfBegin) ==
  IF ~(par.smoothing_ > 0) THEN P
  ELSE LET before == {x \in DOMAIN P.wTb : x < e}
           p == IF before # {} THEN MaxOf(before)
                ELSE IF prevOfBegin = "end" THEN EndEpoch ELSE e
       IN  IF p = e THEN P
           ELSE [P EXCEPT !.motion = Append(@, [prev |-> p, next |-> e]),
                          !.blocks = @ \cup PoseBlocks(p) \cup PoseBlocks(e)]

\* the body of the epoch loop, had a failed pose solve left a default
\* constructed body pose behind and ended the epochs of the pair
BootstrapGroup_FailureLeavesPose(P, M, par, g, pnp, prevOfBegin) ==
  IF P.aborted \/ ~BootstrapAttempted(M, g.tracker, g.lighthouse, g.epoch) THEN P
  ELSE IF ~pnp \/ P.failed # <<>>
  THEN [P EXCEPT !.count = @ + 1,
                 !.failed = IF pnp THEN @ ELSE Append(@, g),
                 !.wTb = Put(@, g.epoch,
                             [pos_xy |-> ZeroValue, pos_z |-> ZeroValue,
                              rot_xy |-> ZeroValue, rot_z |-> ZeroValue])]
  ELSE LET n == Cardinality(Correspondences(M, g.tracker, g.lighthouse, g.epoch))
           seeded == [P EXCEPT
             !.wTb = Put(@, g.epoch,
                         [pos_xy |-> SeedValue(g), pos_z |-> SeedValue(g),
                          rot_xy |-> IF par.force2d_ THEN ZeroValue ELSE SeedValue(g),
                          rot_z |-> SeedValue(g)]),
             !.heights = Append(@, g),
             !.bearing = Append(@, [group |-> g, residuals |-> 2 * n]),
             !.blocks = @ \cup GroupBlocks(g)]
           planar == IF par.force2d_
                     THEN SetParameterBlockConstant(
                            SetParameterBlockConstant(seeded, Blk("pos_z", "", g.epoch)),
                            Blk("rot_xy", "", g.epoch))
                     ELSE seeded
           linked == AddMotion(planar, par, g.epoch, prevOfBegin)
       IN  [linked EXCEPT !.count = @ + 1]

\* the body of the epoch loop, had it kept the seed of the first group that
\* bootstrapped an epoch and fed the height of that group only
BootstrapGroup_FirstSeedStays(P, M, par, g, pnp, prevOfBegin) ==
  IF P.aborted \/ ~BootstrapAttempted(M, g.tracker, g.lighthouse, g.epoch) THEN P
  ELSE IF ~pnp THEN [P EXCEPT !.count = @ + 1, !.failed = Append(@, g)]
  ELSE LET n == Cardinality(Correspondences(M, g.tracker, g.lighthouse, g.epoch))
           old == g.epoch \in DOMAIN P.wTb
           seeded == [P EXCEPT
             !.wTb = IF old THEN @
                     ELSE Put(@, g.epoch,
                              [pos_xy |-> SeedValue(g), pos_z |-> SeedValue(g),
                               rot_xy |-> IF par.force2d_ THEN ZeroValue ELSE SeedValue(g),
                               rot_z |-> SeedValue(g)]),
             !.heights = IF old THEN @ ELSE Append(@, g),
             !.bearing = Append(@, [group |-> g, residuals |-> 2 * n]),
             !.blocks = @ \cup GroupBlocks(g)]
           planar == IF par.force2d_
                     THEN SetParameterBlockConstant(
                            SetParameterBlockConstant(seeded, Blk("pos_z", "", g.epoch)),
                            Blk("rot_xy", "", g.epoch))
                     ELSE seeded
           linked == AddMotion(planar, par, g.epoch, prevOfBegin)
       IN  [linked EXCEPT !.count = @ + 1]

\* the body of the epoch loop for one group: correspondences, pose solve,
\* seed, bearing residual block, planar constraint, motion block
BootstrapGroup(P, M, par, g, pnp, prevOfBegin) ==
  IF P.aborted \/ ~BootstrapAttempted(M, g.tracker, g.lighthouse, g.epoch) THEN P
  ELSE IF ~pnp THEN [P EXCEPT !.count = @ + 1, !.failed = Append(@, g)]
  ELSE LET n == Cardinality(Correspondences(M, g.tracker, g.lighthouse, g.epoch))
           seeded == [P EXCEPT
             !.wTb = Put(@, g.epoch,
                         [pos_xy |-> SeedValue(g), pos_z |-> SeedValue(g),
                          rot_xy |-> IF par.force2d_ THEN ZeroValue ELSE SeedValue(g),
                          rot_z |-> SeedValue(g)]),
             !.heights = Append(@, g),
             !.bearing = Append(@, [group |-> g, residuals |-> 2 * n]),
             !.blocks = @ \cup GroupBlocks(g)]
           planar == IF par.force2d_
                     THEN SetParameterBlockConstant(
                            SetParameterBlockConstant(seeded, Blk("pos_z", "", g.epoch)),
                            Blk("rot_xy", "", g.epoch))
                     ELSE seeded
           linked == AddMotion(planar, par, g.epoch, prevOfBegin)
       IN  [linked EXCEPT !.count = @ + 1]

\* "Fix tracker parameters", after the epoch loop of every (lighthouse, tracker)
FixTracker(P, par, tr) ==
  LET a == IF ~par.refine_extrinsics_
           THEN SetParameterBlockConstant(P, Blk("bTh", tr, NoEpoch)) ELSE P
      b == IF ~par.refine_head_
           THEN SetParameterBlockConstant(a, Blk("tTh", tr, NoEpoch)) ELSE a
  IN  IF ~par.refine_sensors_
      THEN SetParameterBlockConstant(b, Blk("sensors", tr, NoEpoch)) ELSE b

\* FixLighthouse without the freezing of the calibration vector
FixLighthouse_ParamsFree(P, par, lh, first) ==
  IF ~par.refine_lighthouses_ \/ first
  THEN SetParameterBlockConstant(P, Blk("vTl", lh, NoEpoch)) ELSE P

\* "Fix lighthouse parameters", after the tracker loop of every lighthouse;
\* first: lt == lighthouses_.begin()
FixLighthouse(P, par, lh, first) ==
  LET a == IF ~par.refine_lighthouses_ \/ first
           THEN SetParameterBlockConstant(P, Blk("vTl", lh, NoEpoch)) ELSE P
  IN  IF ~par.refine_params_
      THEN SetParameterBlockConstant(a, Blk("params", lh, NoEpoch)) ELSE a

\* if (!refine_registration_) problem.SetParameterBlockConstant(wTv_)
FixRegistration(P, par) ==
  IF ~par.refine_registration_
  THEN SetParameterBlockConstant(P, RegistrationBlock) ELSE P

RECURSIVE EpochLoop(_, _, _, _, _, _, _)
\* for (bt = bundle[tt][lt].begin(); ...): the epochs es in increasing order
EpochLoop(P, M, par, lh, tr, es, orc) ==
  IF es = <<>> THEN P
  ELSE LET g == GroupKey(lh, tr, Head(es))
           att == BootstrapAttempted(M, tr, lh, Head(es))
           Q == BootstrapGroup(P, M, par, g,
                               att /\ orc.pnp[g], IF att THEN orc.prevOfBegin[g] ELSE "self")
       IN  EpochLoop(Q, M, par, lh, tr, Tail(es), orc)

RECURSIVE TrackerLoop(_, _, _, _, _, _)
\* for (tt = trackers_.begin(); ...)
TrackerLoop(P, M, par, lh, trs, orc) ==
  IF trs = <<>> THEN P
  ELSE LET tr == Head(trs)
           Q == EpochLoop(P, M, par, lh, tr, SortedSeq(Epochs(M, tr, lh)), orc)
       IN  TrackerLoop(FixTracker(Q, par, tr), M, par, lh, Tail(trs), orc)

RECURSIVE LighthouseLoop(_, _, _, _, _, _, _)
\* for (lt = lighthouses_.begin(); ...)
LighthouseLoop(P, M, par, lhs, trs, first, orc) ==
  IF lhs = <<>> THEN P
  ELSE LET lh == Head(lhs)
           Q == TrackerLoop(P, M, par, lh, trs, orc)
       IN  LighthouseLoop(FixLighthouse(Q, par, lh, first), M, par, Tail(lhs), trs,
                          FALSE, orc)

\* the end of the build, had every body pose kept its seeded height
MeanHeight_KeepsSeed(P, par) == P

\* if (force2d_): the height of every body pose becomes height.Mean()
MeanHeight(P, par) ==
  IF P.aborted \/ ~par.force2d_ THEN P
  ELSE [P EXCEPT !.wTb = [e \in DOMAIN @ |->
                            [@[e] EXCEPT !.pos_z = MeanValue(P.heights)]]]

\* the build, had the pose table started from the poses of the corrections
BuildProblem_SeedsFromCorrections(M, C, LH, TR, par, orc) ==
  MeanHeight(
    FixRegistration(
      LighthouseLoop([EmptyProblem EXCEPT
                        !.bundle = Bundle(M), !.corr = Corr(C),
                        !.wTb = [e \in DOMAIN Corr(C) |->
                                   [pos_xy |-> ZeroValue, pos_z |-> ZeroValue,
                                    rot_xy |-> ZeroValue, rot_z |-> ZeroValue]]],
                     M, par, SortedSerials(DOMAIN LH), SortedSerials(DOMAIN TR),
                     TRUE, orc),
      par),
    par)

\* the locals of Solve when it calls ceres::Solve, or when the process is
\* terminated before that
BuildProblem(M, C, LH, TR, par, orc) ==
  MeanHeight(
    FixRegistration(
      LighthouseLoop([EmptyProblem EXCEPT !.bundle = Bundle(M), !.corr = Corr(C)],
                     M, par, SortedSerials(DOMAIN LH), SortedSerials(DOMAIN TR),
                     TRUE, orc),
      par),
    par)

-----------------------------------------------------------------------------
(* Solve(): optimisation and result                                        *)

\* the blocks of the problem that live in the tables or in wTv_ and that the
\* optimizer may move
FreeGlobalBlocks(P) == {b \in P.blocks \ P.constant : b.epoch = NoEpoch}

\* the answers of the libraries the construction of the problem depends on:
\* the success of each solvePnPRansac call and the iterator std::prev yields
\* at begin() (only a group whose pose solve succeeded gets that far)
BuildOracles(M, LH, TR) ==
  LET G == AttemptedGroups(M, DOMAIN LH, DOMAIN TR)
  IN  UNION {{[pnp |-> f, prevOfBegin |-> u] :
                u \in {v \in [G -> {"self", "end"}] :
                         \A g \in G : ~f[g] => v[g] = "self"}} :
               f \in [G -> BOOLEAN]}

\* ceres::Solve found no usable solution (or was never reached)
Unusable(P) ==
  [usable |-> FALSE, opens |-> FALSE, newv |-> [b \in FreeGlobalBlocks(P) |-> 0]]

\* the answers the rest of Solve depends on: summary.IsSolutionUsable(),
\* outfile.is_open(), and the values ceres::Solve leaves in the free blocks
SolveOracles(P) ==
  IF P.aborted THEN {Unusable(P)}
  ELSE {Unusable(P)} \cup
       {[usable |-> TRUE, opens |-> op, newv |-> nv] :
          op \in BOOLEAN, nv \in [FreeGlobalBlocks(P) -> Vals]}

\* the answers of the libraries one run of Solve depends on
Oracles(M, C, LH, TR, par) ==
  UNION {{[pnp |-> bo.pnp, prevOfBegin |-> bo.prevOfBegin, usable |-> so.usable,
           opens |-> so.opens, newv |-> so.newv] :
            so \in SolveOracles(BuildProblem(M, C, LH, TR, par, bo))} :
           bo \in BuildOracles(M, LH, TR)}

\* the value of a block after ceres::Solve found a usable solution
Solved(orc, b, old) == IF b \in DOMAIN orc.newv THEN orc.newv[b] ELSE old

\* a component of a body pose the optimizer was free to move
SolvedValue == [kind |-> "solved", of |-> <<>>]

\* the pose table after ceres::Solve: the components whose block is constant
\* keep their value
SolvedPoses(P) ==
  [e \in DOMAIN P.wTb |->
     [c \in DOMAIN P.wTb[e] |->
        IF Blk(c, "", e) \in P.constant THEN P.wTb[e][c] ELSE SolvedValue]]

\* the poses of the ground-truth path: the corrections of the epochs that
\* have a body pose
TruthPath(P) == DOMAIN P.wTb \cap DOMAIN P.corr

\* Solve() when ceres reported no usable solution, had the transform set been
\* sent all the same
Rejected_SendsTransforms(P, LH, TR, W) ==
  [ret |-> "false", lighthouses |-> LH, trackers |-> TR, wTv |-> W,
   emitted |-> {"transforms"}, sends |-> TRUE,
   problem |-> [P EXCEPT !.summary = "unusable"]]

\* Solve() when ceres reported no usable solution: return false
Rejected(P, LH, TR, W) ==
  [ret |-> "false", lighthouses |-> LH, trackers |-> TR, wTv |-> W,
   emitted |-> {}, sends |-> FALSE,
   problem |-> [P EXCEPT !.summary = "unusable"]]

\* Solve() from the call of ceres::Solve on, once the problem P was built
Optimize(P, LH, TR, W, par, orc) ==
  IF P.aborted
  THEN [ret |-> "abort", lighthouses |-> LH, trackers |-> TR, wTv |-> W,
        emitted |-> {}, sends |-> FALSE, problem |-> P]
  ELSE IF orc.usable
  THEN [ret |-> "true",
        problem |-> [P EXCEPT !.wTb = SolvedPoses(P),
                              !.truth = IF orc.opens THEN TruthPath(P) ELSE {},
                              !.summary = "usable"],
        lighthouses |->
          [lh \in DOMAIN LH |->
             [LH[lh] EXCEPT
                !.vTl = Solved(orc, Blk("vTl", lh, NoEpoch), @),
                !.params = Solved(orc, Blk("params", lh, NoEpoch), @)]],
        trackers |->
          [tr \in DOMAIN TR |->
             [TR[tr] EXCEPT
                !.bTh = Solved(orc, Blk("bTh", tr, NoEpoch), @),
                !.tTh = Solved(orc, Blk("tTh", tr, NoEpoch), @),
                !.sensors = Solved(orc, Blk("sensors", tr, NoEpoch), @)]],
        wTv |-> Solved(orc, RegistrationBlock, W),
        emitted |-> {"transforms"}
                      \cup (IF par.visualize_ THEN {"path"} ELSE {})
                      \cup (IF orc.opens THEN {"perfile", "truth"} ELSE {}),
        sends |-> TRUE]
  ELSE Rejected(P, LH, TR, W)

\* Solve() on an empty store, had it gone on to publish an (empty) path
NothingToSolve_Publishes(LH, TR, W) ==
  [ret |-> "false", lighthouses |-> LH, trackers |-> TR, wTv |-> W,
   emitted |-> {"path"}, sends |-> TRUE, problem |-> EmptyProblem]

\* Solve() when the measurement store is empty
NothingToSolve(LH, TR, W) ==
  [ret |-> "false", lighthouses |-> LH, trackers |-> TR, wTv |-> W,
   emitted |-> {}, sends |-> FALSE, problem |-> EmptyProblem]

\* Solve(): its return value ("abort" when the process is terminated inside
\* it), the tables and registration it leaves, what it emitted, and its locals
Solve(M, C, LH, TR, W, par, orc) ==
  IF DOMAIN M = {} THEN NothingToSolve(LH, TR, W)
  ELSE Optimize(BuildProblem(M, C, LH, TR, par, orc), LH, TR, W, par, orc)

\* the serial parameter of the filter node
serial_ == "T1"

\* 1.0 s in the unit of the filter node's clock
OneSecond == 2

\* the last reading of the filter node's clock the model follows
MaxClock == 2 * MaxTime + 1

\* a callback of the filter node that returned at its first test
NothingDone(by) ==
  [by |-> by, delta |-> FALSE, dt |-> 0, predicted |-> FALSE, broadcast |-> FALSE]

\* deepdive_filter when ros::spin() is entered: last_(0), ready_ = false,
\* initialized_ = false
FilterStart ==
  /\ clock = 1
  /\ last_ = 0
  /\ ready_ = FALSE
  /\ initialized_ = FALSE
  /\ did = NothingDone("main")

\* the values main() leaves in the flags before the parameters are read
Defaults ==
  [offline_ |-> FALSE, refine_registration_ |-> TRUE,
   refine_lighthouses_ |-> FALSE, refine_extrinsics_ |-> FALSE,
   refine_sensors_ |-> FALSE, refine_head_ |-> FALSE, refine_params_ |-> FALSE,
   force2d_ |-> FALSE, smoothing_ |-> 10, visualize_ |-> TRUE, res_ |-> res_]

\* the configurations explored
Configs ==
  {[Defaults EXCEPT !.offline_ = o, !.refine_registration_ = r, !.refine_params_ = ~r] :
     o \in BOOLEAN, r \in BOOLEAN}

\* a Response as the service layer constructs it
BlankResponse == [success |-> FALSE, message |-> ""]

\* a stopped timer
TimerStopped == [armed |-> FALSE, deadline |-> 0]

\* main(): the state when ros::spin() is entered
Init ==
  /\ cfg \in Configs
  /\ recording_ = cfg.offline_
  /\ measurements_ = EmptyMap
  /\ corrections_ = EmptyMap
  /\ lighthouses_ =
       [lh \in ConfiguredLighthouses |-> [ready |-> FALSE, vTl |-> 0, params |-> 0]]
  /\ trackers_ =
       [tr \in ConfiguredTrackers |->
          [ready |-> FALSE, bTh |-> 0, tTh |-> 0, sensors |-> 0]]
  /\ wTv_ = 0
  /\ now = StartTime
  /\ timer_ = TimerStopped
  /\ pc = "spin"
  /\ res = BlankResponse
  /\ solves = 0
  /\ emitted = {}
  /\ sent = <<wTv_, lighthouses_, trackers_>>
  /\ ev = "main"
  /\ problem = EmptyProblem
  /\ FilterStart

-----------------------------------------------------------------------------
(* Callbacks                                                               *)

\* a spinner that dispatches callbacks on several threads
CallbackQueueIdle_Concurrent == pc # "aborted"

\* ros::spin(): one callback at a time, the next one only after the previous
\* one returned
CallbackQueueIdle == pc = "spin"

\* LightRejected without the test of recording_
LightRejected_IgnoresRecording(msg) ==
  \/ msg.tracker \notin DOMAIN trackers_
  \/ msg.lighthouse \notin DOMAIN lighthouses_
  \/ ~trackers_[msg.tracker].ready
  \/ ~lighthouses_[msg.lighthouse].ready

\* LightRejected without the tests of the ready flags
LightRejected_IgnoresReady(msg) ==
  \/ ~recording_
  \/ msg.tracker \notin DOMAIN trackers_
  \/ msg.lighthouse \notin DOMAIN lighthouses_

\* the early return of LightCallback: not recording, or tracker or lighthouse
\* unknown or not ready
LightRejected(msg) ==
  \/ ~recording_
  \/ msg.tracker \notin DOMAIN trackers_
  \/ msg.lighthouse \notin DOMAIN lighthouses_
  \/ ~trackers_[msg.tracker].ready
  \/ ~lighthouses_[msg.lighthouse].ready

\* the message LightCallback stores, after the erase loop
LightData(msg) == [msg EXCEPT !.pulses = FilterPulses(msg.pulses)]

\* LightCallback stores the message
LightAccepted(msg) ==
  ~LightRejected(msg) /\ ~(Len(LightData(msg).pulses) < thresh_count_)

\* timer_.stop(); timer_.start(): the timer is due one period from now
TimerRestarted == [armed |-> TRUE, deadline |-> now + TimerPeriod]

\* LightCallback restarting the timer only when it stores the message
LightCallback_RestartWhenStored(msg) ==
  /\ CallbackQueueIdle
  /\ timer_' = IF LightAccepted(msg) THEN TimerRestarted ELSE timer_
  /\ measurements_' = IF LightAccepted(msg)
                      THEN Put(measurements_, now, LightData(msg))
                      ELSE measurements_
  /\ ev' = "light"
  /\ UNCHANGED <<recording_, corrections_, lighthouses_, trackers_, wTv_, now,
                 pc, res, solves, emitted, sent, cfg, filterVars, problem>>

\* the /light subscriber
LightCallback(msg) ==
  /\ CallbackQueueIdle
  /\ timer_' = TimerRestarted
  /\ measurements_' = IF LightAccepted(msg)
                      THEN Put(measurements_, now, LightData(msg))
                      ELSE measurements_
  /\ ev' = "light"
  /\ UNCHANGED <<recording_, corrections_, lighthouses_, trackers_, wTv_, now,
                 pc, res, solves, emitted, sent, cfg, filterVars, problem>>

\* the transforms of a message that CorrectionCallback stores
IsCorrection(tf) ==
  tf.frame_id = frame_world_ /\ tf.child_frame_id = frame_body_

RECURSIVE StoreCorrections(_, _, _)
\* the loop of CorrectionCallback: every matching transform is assigned to
\* corrections_[ros::Time::now()], in message order
StoreCorrections(C, tfs, t) ==
  IF tfs = <<>> THEN C
  ELSE StoreCorrections(IF IsCorrection(Head(tfs)) THEN Put(C, t, Head(tfs)) ELSE C,
                        Tail(tfs), t)

\* CorrectionCallback without the test of the recording flag
CorrectionCallback_IgnoresRecording(msg) ==
  /\ CallbackQueueIdle
  /\ corrections_' = StoreCorrections(corrections_, msg, now)
  /\ ev' = "correction"
  /\ UNCHANGED <<recording_, measurements_, lighthouses_, trackers_, wTv_, now,
                 timer_, pc, res, solves, emitted, sent, cfg, filterVars, problem>>

\* the /tf subscriber
CorrectionCallback(msg) ==
  /\ CallbackQueueIdle
  /\ corrections_' = IF ~recording_ THEN corrections_
                     ELSE StoreCorrections(corrections_, msg, now)
  /\ ev' = "correction"
  /\ UNCHANGED <<recording_, measurements_, lighthouses_, trackers_, wTv_, now,
                 timer_, pc, res, solves, emitted, sent, cfg, filterVars, problem>>

\* LighthouseCallback of the shared code: a configured lighthouse whose
\* parameters arrived becomes ready
LighthouseCallback(serial) ==
  /\ CallbackQueueIdle
  /\ lighthouses_' = IF serial \in DOMAIN lighthouses_
                     THEN [lighthouses_ EXCEPT ![serial].ready = TRUE]
                     ELSE lighthouses_
  /\ ev' = "lighthouses"
  /\ UNCHANGED <<recording_, measurements_, corrections_, trackers_, wTv_, now,
                 timer_, pc, res, solves, emitted, sent, cfg, filterVars, problem>>

\* TrackerCallback of the shared code: a configured tracker whose parameters
\* arrived becomes ready
TrackerCallback(serial) ==
  /\ CallbackQueueIdle
  /\ trackers_' = IF serial \in DOMAIN trackers_
                  THEN [trackers_ EXCEPT ![serial].ready = TRUE]
                  ELSE trackers_
  /\ ev' = "trackers"
  /\ UNCHANGED <<recording_, measurements_, corrections_, lighthouses_, wTv_, now,
                 timer_, pc, res, solves, emitted, sent, cfg, filterVars, problem>>

\* TriggerEnter clearing the recording flag before Solve() is called
TriggerEnter_FlipFirst(who) ==
  /\ solves' = 0
  /\ IF ~recording_
     THEN /\ res' = [success |-> TRUE, message |-> "Recording started."]
          /\ pc' = "spin"
     ELSE /\ res' = BlankResponse
          /\ pc' = "Solve"
  /\ recording_' = ~recording_
  /\ ev' = who
  /\ UNCHANGED <<measurements_, corrections_, lighthouses_, trackers_, wTv_, now,
                 emitted, sent, cfg, filterVars, problem>>

\* TriggerCallback up to the call of Solve(): when not recording the whole
\* handler, when recording the entry into Solve()
TriggerEnter(who) ==
  /\ solves' = 0
  /\ IF ~recording_
     THEN /\ res' = [success |-> TRUE, message |-> "Recording started."]
          /\ recording_' = ~recording_
          /\ pc' = "spin"
     ELSE /\ res' = BlankResponse
          /\ pc' = "Solve"
          /\ UNCHANGED recording_
  /\ ev' = who
  /\ UNCHANGED <<measurements_, corrections_, lighthouses_, trackers_, wTv_, now,
                 emitted, sent, cfg, filterVars, problem>>

\* the /trigger service
TriggerCallback ==
  /\ CallbackQueueIdle
  /\ TriggerEnter("trigger")
  /\ UNCHANGED timer_

\* TimerCallback of a periodic timer: due again one period later
TimerCallback_Periodic ==
  /\ CallbackQueueIdle
  /\ timer_.armed
  /\ now >= timer_.deadline
  /\ timer_' = TimerRestarted
  /\ TriggerEnter("timer")

\* the one-shot timer expired: a trigger is faked
TimerCallback ==
  /\ CallbackQueueIdle
  /\ timer_.armed
  /\ now >= timer_.deadline
  /\ timer_' = TimerStopped
  /\ TriggerEnter("timer")

\* the response TriggerCallback builds from the value Solve() returned
Response(ret) ==
  IF ret = "true"
  THEN [success |-> TRUE, message |-> "Recording stopped. Solution found."]
  ELSE [success |-> FALSE, message |-> "Recording stopped. Solution not found."]

\* TriggerFinish clearing the stores only after a solution was found
TriggerFinish_KeepOnFailure(r) ==
  /\ res' = Response(r.ret)
  /\ lighthouses_' = r.lighthouses
  /\ trackers_' = r.trackers
  /\ wTv_' = r.wTv
  /\ emitted' = r.emitted
  /\ problem' = r.problem
  /\ sent' = IF r.sends THEN <<r.wTv, r.lighthouses, r.trackers>> ELSE sent
  /\ measurements_' = IF r.ret = "true" THEN EmptyMap ELSE measurements_
  /\ corrections_' = IF r.ret = "true" THEN EmptyMap ELSE corrections_
  /\ recording_' = ~recording_
  /\ pc' = "spin"

\* TriggerCallback once Solve() returned r: the state Solve left, the
\* response, both stores cleared, the recording flag toggled
TriggerFinish(r) ==
  /\ res' = Response(r.ret)
  /\ lighthouses_' = r.lighthouses
  /\ trackers_' = r.trackers
  /\ wTv_' = r.wTv
  /\ emitted' = r.emitted
  /\ problem' = r.problem
  /\ sent' = IF r.sends THEN <<r.wTv, r.lighthouses, r.trackers>> ELSE sent
  /\ measurements_' = EmptyMap
  /\ corrections_' = EmptyMap
  /\ recording_' = ~recording_
  /\ pc' = "spin"

\* TriggerCallback from the call of Solve() on: Solve runs and the handler
\* finishes, or the process is terminated inside Solve
TriggerSolve ==
  /\ pc = "Solve"
  /\ \E bo \in BuildOracles(measurements_, lighthouses_, trackers_) :
       LET P == BuildProblem(measurements_, corrections_, lighthouses_, trackers_,
                             cfg, bo) IN
       \E so \in SolveOracles(P) :
         LET r == IF DOMAIN measurements_ = {}
                  THEN NothingToSolve(lighthouses_, trackers_, wTv_)
                  ELSE Optimize(P, lighthouses_, trackers_, wTv_, cfg, so) IN
         /\ solves' = solves + 1
         /\ IF r.ret = "abort"
            THEN /\ pc' = "aborted"
                 /\ problem' = r.problem
                 /\ emitted' = r.emitted
                 /\ UNCHANGED <<recording_, measurements_, corrections_, lighthouses_,
                                trackers_, wTv_, res, sent>>
            ELSE TriggerFinish(r)
  /\ UNCHANGED <<now, timer_, ev, cfg, filterVars>>

\* the clock advances
Tick ==
  /\ pc # "aborted"
  /\ now < MaxTime
  /\ now' = now + 1
  /\ UNCHANGED <<recording_, measurements_, corrections_, lighthouses_, trackers_,
                 wTv_, timer_, pc, res, solves, emitted, sent, ev, cfg, filterVars,
                 problem>>

Next ==
  \/ \E msg \in LightMsgs : LightCallback(msg)
  \/ \E msg \in TFMsgs : CorrectionCallback(msg)
  \/ \E serial \in MsgLighthouses : LighthouseCallback(serial)
  \/ \E serial \in MsgTrackers : TrackerCallback(serial)
  \/ TriggerCallback
  \/ TimerCallback
  \/ TriggerSolve
  \/ Tick

Spec == Init /\ [][Next]_vars

-----------------------------------------------------------------------------
(* Ingestion of light messages with pulses on either side of the           *)
(* thresholds: the node is recording in offline mode and the configured     *)
(* lighthouse and tracker are ready                                         *)

IngestInit ==
  /\ cfg = [Defaults EXCEPT !.offline_ = TRUE]
  /\ recording_ = cfg.offline_
  /\ measurements_ = EmptyMap
  /\ corrections_ = EmptyMap
  /\ lighthouses_ =
       [lh \in ConfiguredLighthouses |-> [ready |-> TRUE, vTl |-> 0, params |-> 0]]
  /\ trackers_ =
       [tr \in ConfiguredTrackers |->
          [ready |-> TRUE, bTh |-> 0, tTh |-> 0, sensors |-> 0]]
  /\ wTv_ = 0
  /\ now = StartTime
  /\ timer_ = TimerStopped
  /\ pc = "spin"
  /\ res = BlankResponse
  /\ solves = 0
  /\ emitted = {}
  /\ sent = <<wTv_, lighthouses_, trackers_>>
  /\ ev = "trackers"
  /\ problem = EmptyProblem
  /\ FilterStart

IngestNext ==
  \/ \E msg \in LightMsgsOver(MixedPulseLists) : LightCallback(msg)
  \/ Tick

IngestSpec == IngestInit /\ [][IngestNext]_vars

-----------------------------------------------------------------------------
(* Solve() on recorded sessions: the node was recording in offline mode     *)
(* with two lighthouses and one tracker ready; in every epoch of the         *)
(* session at most one (lighthouse, tracker) pair was seen, on both axes     *)

SessionLighthouses == {"L1", "L2"}
SessionTrackers == {"T1"}

\* the epochs of a session and the clock readings that fall into an epoch
SessionEpochs == {res_ * i : i \in 1..MaxEpochs}
Stamps(e) == {t \in 1..(res_ * MaxEpochs) : EpochOf(t) = e}

\* a pulse list of n pulses from the sensors first..first+n-1
SensorPulses(first, n) ==
  [i \in 1..n |-> Pulse(first + i - 1, GoodAngle, GoodDuration)]

\* what was seen in one epoch: a lighthouse and a tracker, and by how many
\* sensors the pulses of the second axis start after those of the first
Sightings == [lighthouse : SessionLighthouses, tracker : SessionTrackers, shift : {0, 1}]

\* a session: for every epoch nothing or one sighting
Sessions == [SessionEpochs -> {S \in SUBSET Sightings : Cardinality(S) <= 1}]

\* the measurement store LightCallback leaves for a session: the message of
\* axis 0 at the first clock reading of the epoch, with the first
\* thresholds/count sensors, that of axis 1 at the last, with the sensors from
\* shift on
SessionStore(ses) ==
  [t \in UNION {Stamps(e) : e \in {x \in SessionEpochs : ses[x] # {}}} |->
     LET g == CHOOSE x \in ses[EpochOf(t)] : TRUE
         first == t = MinOf(Stamps(EpochOf(t)))
     IN  [tracker |-> g.tracker, lighthouse |-> g.lighthouse,
          axis |-> IF first THEN 0 ELSE 1,
          pulses |-> IF first THEN SensorPulses(0, thresh_count_)
                     ELSE SensorPulses(g.shift, NUM_SENSORS - g.shift)]]

\* the correction stores CorrectionCallback leaves: none, or one correction
\* at the first clock reading
SessionCorrections ==
  {[t \in S |-> [frame_id |-> frame_world_, child_frame_id |-> frame_body_, value |-> 0]] :
     S \in {{}, {StartTime}}}

\* the parameters that shape the problem
FlagNames ==
  {"refine_registration_", "refine_lighthouses_", "refine_extrinsics_",
   "refine_sensors_", "refine_head_", "refine_params_", "force2d_", "smoothing_"}

\* the defaults with the parameters F changed: a flag inverted, the smoothing
\* factor set to 0
Changed(F) ==
  [k \in DOMAIN Defaults |->
     IF k = "offline_" THEN TRUE
     ELSE IF k \notin F THEN Defaults[k]
     ELSE IF k = "smoothing_" THEN 0
     ELSE ~Defaults[k]]

\* the configurations of the sessions: the defaults, and the defaults with one
\* parameter changed
SessionConfigs == {Changed({})} \cup {Changed({k}) : k \in FlagNames}

SessionInit ==
  /\ cfg \in SessionConfigs
  /\ recording_ = cfg.offline_
  /\ measurements_ \in {SessionStore(ses) : ses \in Sessions}
  /\ corrections_ \in SessionCorrections
  /\ lighthouses_ =
       [lh \in SessionLighthouses |-> [ready |-> TRUE, vTl |-> 0, params |-> 0]]
  /\ trackers_ =
       [tr \in SessionTrackers |->
          [ready |-> TRUE, bTh |-> 0, tTh |-> 0, sensors |-> 0]]
  /\ wTv_ = 0
  /\ now = res_ * MaxEpochs
  /\ timer_ = TimerStopped
  /\ pc = "spin"
  /\ res = BlankResponse
  /\ solves = 0
  /\ emitted = {}
  /\ sent = <<wTv_, lighthouses_, trackers_>>
  /\ ev = "light"
  /\ problem = EmptyProblem
  /\ FilterStart

SessionNext ==
  \/ TriggerCallback
  \/ TriggerSolve

SessionSpec == SessionInit /\ [][SessionNext]_vars

-----------------------------------------------------------------------------
(* Solve() on sessions recorded with a coarse resolution: every clock       *)
(* reading of the session rounds to the same epoch, in which several        *)
(* (lighthouse, tracker) pairs were seen one after the other, each on both   *)
(* axes                                                                      *)

\* the resolution parameter of these sessions
SharedResolution == res_ * MaxEpochs

\* the one epoch of the session and the clock readings that round to it
SharedEpoch == SharedResolution
SharedStamps == {t \in 1..(2 * SharedResolution) : EpochOf(t) = SharedEpoch}

\* the session is a sequence of slots of two clock readings, one per axis
Slots == 1..(Cardinality(SharedStamps) \div 2)
SlotStamp(i, a) == MinOf(SharedStamps) + 2 * (i - 1) + a

\* the tables of the configuration file: two lighthouses and one tracker, or
\* one lighthouse and two trackers
SharedTables ==
  {[lighthouses |-> {"L1", "L2"}, trackers |-> {"T1"}],
   [lighthouses |-> {"L1"}, trackers |-> {"T1", "T2"}]}

\* a session over tables tb: for every slot nothing or one sighting
SharedSessions(tb) ==
  [Slots -> {S \in SUBSET [lighthouse : tb.lighthouses, tracker : tb.trackers,
                           shift : {0, 1}] : Cardinality(S) <= 1}]

\* the measurement store LightCallback leaves for such a session
SharedStore(ses) ==
  [t \in UNION {{SlotStamp(i, 0), SlotStamp(i, 1)} : i \in {x \in Slots : ses[x] # {}}} |->
     LET i == CHOOSE x \in Slots : t \in {SlotStamp(x, 0), SlotStamp(x, 1)}
         g == CHOOSE x \in ses[i] : TRUE
         first == t = SlotStamp(i, 0)
     IN  [tracker |-> g.tracker, lighthouse |-> g.lighthouse,
          axis |-> IF first THEN 0 ELSE 1,
          pulses |-> IF first THEN SensorPulses(0, thresh_count_)
                     ELSE SensorPulses(g.shift, NUM_SENSORS - g.shift)]]

\* the configurations of these sessions: the defaults and the defaults with
\* force2d set, at the coarse resolution
SharedConfigs ==
  {[Changed(F) EXCEPT !.res_ = SharedResolution] : F \in {{}, {"force2d_"}}}

SharedInit ==
  /\ cfg \in SharedConfigs
  /\ recording_ = cfg.offline_
  /\ \E tb \in SharedTables :
       /\ lighthouses_ =
            [lh \in tb.lighthouses |-> [ready |-> TRUE, vTl |-> 0, params |-> 0]]
       /\ trackers_ =
            [tr \in tb.trackers |->
               [ready |-> TRUE, bTh |-> 0, tTh |-> 0, sensors |-> 0]]
       /\ measurements_ \in {SharedStore(ses) : ses \in SharedSessions(tb)}
  /\ corrections_ = EmptyMap
  /\ wTv_ = 0
  /\ now = 2 * SharedResolution
  /\ timer_ = TimerStopped
  /\ pc = "spin"
  /\ res = BlankResponse
  /\ solves = 0
  /\ emitted = {}
  /\ sent = <<wTv_, lighthouses_, trackers_>>
  /\ ev = "light"
  /\ problem = EmptyProblem
  /\ FilterStart

SharedNext ==
  \/ TriggerCallback
  \/ TriggerSolve

SharedSpec == SharedInit /\ [][SharedNext]_vars

-----------------------------------------------------------------------------
(* Bundling of what was ingested: the node records in offline mode, the    *)
(* configured lighthouse and tracker are ready, and the pulse of the first  *)
(* sensor comes at either angle                                             *)

\* pulse lists of thresholds/count pulses that pass the rejection loop
BundlePulseLists ==
  {MkPulses(thresh_count_, k, MaxOf(Angles), GoodDuration) : k \in 0..1}

BundleMsgs ==
  [tracker : ConfiguredTrackers, lighthouse : ConfiguredLighthouses, axis : {0, 1},
   pulses : BundlePulseLists]

BundleNext ==
  \/ \E msg \in BundleMsgs : LightCallback(msg)
  \/ TriggerCallback
  \/ TriggerSolve
  \/ Tick

BundleSpec == IngestInit /\ [][BundleNext]_vars

-----------------------------------------------------------------------------
(* The filter node (deepdive_filter): tracker parameters, light            *)
(* measurements and the broadcast timer                                     *)

\* Delta(now, dt): the time since the previous call, and whether it lies
\* strictly between 0 and 1 s; the caller assigns last_ = now
Delta(t) == [dt |-> t - last_, ok |-> (t - last_ > 0 /\ t - last_ < OneSecond)]

\* TrackerCallback of the filter node: the parameters of the own tracker
FilterTrackerCallback(serial) ==
  /\ ready_' = (ready_ \/ serial = serial_)
  /\ did' = NothingDone("trackers")
  /\ UNCHANGED <<clock, last_, initialized_, calibrateVars>>

\* LightCallback of the filter node with Delta leaving last_ alone when it
\* rejects
FilterLightCallback_KeepsLast(msg, found) ==
  IF ~ready_ \/ msg.tracker # serial_
  THEN /\ did' = NothingDone("light")
       /\ UNCHANGED <<clock, last_, ready_, initialized_, calibrateVars>>
  ELSE LET d == Delta(clock) IN
       /\ last_' = IF d.ok THEN clock ELSE last_
       /\ did' = [by |-> "light", delta |-> TRUE, dt |-> d.dt,
                  predicted |-> d.ok /\ found, broadcast |-> FALSE]
       /\ initialized_' = (initialized_ \/ (d.ok /\ found))
       /\ UNCHANGED <<clock, ready_, calibrateVars>>

\* LightCallback of the filter node; found: lookupTransform did not throw
FilterLightCallback(msg, found) ==
  IF ~ready_ \/ msg.tracker # serial_
  THEN /\ did' = NothingDone("light")
       /\ UNCHANGED <<clock, last_, ready_, initialized_, calibrateVars>>
  ELSE LET d == Delta(clock) IN
       /\ last_' = clock
       /\ did' = [by |-> "light", delta |-> TRUE, dt |-> d.dt,
                  predicted |-> d.ok /\ found, broadcast |-> FALSE]
       /\ initialized_' = (initialized_ \/ (d.ok /\ found))
       /\ UNCHANGED <<clock, ready_, calibrateVars>>

\* TimerCallback of the filter node
FilterTimerCallback ==
  IF ~initialized_
  THEN /\ did' = NothingDone("timer")
       /\ UNCHANGED <<clock, last_, ready_, initialized_, calibrateVars>>
  ELSE LET d == Delta(clock) IN
       /\ last_' = clock
       /\ did' = [by |-> "timer", delta |-> TRUE, dt |-> d.dt,
                  predicted |-> d.ok, broadcast |-> d.ok]
       /\ UNCHANGED <<clock, ready_, initialized_, calibrateVars>>

\* the clock of the filter node advances
FilterTick ==
  /\ clock < MaxClock
  /\ clock' = clock + 1
  /\ UNCHANGED <<last_, ready_, initialized_, did, calibrateVars>>

FilterInit == Init /\ cfg = Defaults

FilterNext ==
  \/ \E serial \in MsgTrackers : FilterTrackerCallback(serial)
  \/ \E msg \in LightMsgs, found \in BOOLEAN : FilterLightCallback(msg, found)
  \/ FilterTimerCallback
  \/ FilterTick

FilterSpec == FilterInit /\ [][FilterNext]_vars

-----------------------------------------------------------------------------
(* Properties of the recording/trigger state machine                       *)

\* a trigger request is dispatched: by the service or by the expired timer
TriggerRequest == TriggerCallback \/ TimerCallback

\* C1: every trigger request flips the recording state exactly once.  A
\* request received while recording runs Solve exactly once and returns
\* success equal to the value Solve returned, with a status message; a
\* request received while idle runs no Solve and returns success = true,
\* "Recording started."
C1_TriggerFlipsOnce ==
  [][/\ (TriggerRequest /\ ~recording_) =>
          /\ recording_'
          /\ pc' = "spin"
          /\ solves' = 0
          /\ res' = [success |-> TRUE, message |-> "Recording started."]
     /\ (TriggerRequest /\ recording_) => (pc' = "Solve" /\ solves' = 0)
     /\ (pc = "Solve" /\ now' = now) =>
          /\ pc' = "spin"
          /\ solves' = 1
          /\ ~recording_'
          /\ \E orc \in Oracles(measurements_, corrections_, lighthouses_, trackers_, cfg) :
               LET r == Solve(measurements_, corrections_, lighthouses_, trackers_, wTv_,
                          cfg, orc)
               IN  /\ r.ret \in {"true", "false"}
                   /\ res'.success = (r.ret = "true")
                   /\ res'.message # ""]_vars

\* C2: after every Recording -> Idle transition the measurement store and the
\* correction store are both empty, whatever Solve returned
C2_StoresClearedOnStop ==
  [][(recording_ /\ ~recording_') =>
       (DOMAIN measurements_' = {} /\ DOMAIN corrections_' = {})]_vars

\* C2 witness: recording was stopped by a request whose Solve found a
\* solution (so the measurement store was not empty), and the stores are empty
C2_Witness ==
  /\ pc = "spin"
  /\ ~recording_
  /\ solves = 1
  /\ res = Response("true")
  /\ DOMAIN measurements_ = {}
  /\ DOMAIN corrections_ = {}

\* Solve leaves every entry of both tables as it found it, for every answer
\* of the libraries
SolveKeepsTables ==
  \A orc \in Oracles(measurements_, corrections_, lighthouses_, trackers_, cfg) :
    LET r == Solve(measurements_, corrections_, lighthouses_, trackers_, wTv_,
                          cfg, orc)
    IN  r.lighthouses = lighthouses_ /\ r.trackers = trackers_

\* C3 as stated: after a Recording -> Idle transition the lighthouse table
\* and the tracker table are empty, and Solve changes no entry of either
C3_TablesClearedOnStop ==
  [][/\ (recording_ /\ ~recording_') =>
          (DOMAIN lighthouses_' = {} /\ DOMAIN trackers_' = {})
     /\ (pc = "Solve") => SolveKeepsTables]_vars

\* the first lighthouse in serial order: lighthouses_.begin()
FirstLighthouse == Head(SortedSerials(DOMAIN lighthouses_))

\* C3 as amended: leaving the Recording state clears neither table.  While a
\* trigger request is served both tables keep their serials and readiness
\* flags; Solve changes only pose and calibration values, only when it found
\* a solution, and only of blocks its refinement flag leaves free
C3_TablesKeptOnStop ==
  [][(TriggerRequest \/ pc = "Solve") =>
       /\ DOMAIN lighthouses_' = DOMAIN lighthouses_
       /\ DOMAIN trackers_' = DOMAIN trackers_
       /\ \A lh \in DOMAIN lighthouses_ :
            /\ lighthouses_'[lh].ready = lighthouses_[lh].ready
            /\ (lighthouses_'[lh].vTl # lighthouses_[lh].vTl) =>
                 (res'.success /\ cfg.refine_lighthouses_ /\ lh # FirstLighthouse)
            /\ (lighthouses_'[lh].params # lighthouses_[lh].params) =>
                 (res'.success /\ cfg.refine_params_)
       /\ \A tr \in DOMAIN trackers_ :
            /\ trackers_'[tr].ready = trackers_[tr].ready
            /\ (trackers_'[tr].bTh # trackers_[tr].bTh) =>
                 (res'.success /\ cfg.refine_extrinsics_)
            /\ (trackers_'[tr].tTh # trackers_[tr].tTh) =>
                 (res'.success /\ cfg.refine_head_)
            /\ (trackers_'[tr].sensors # trackers_[tr].sensors) =>
                 (res'.success /\ cfg.refine_sensors_)]_vars

\* C3 witness: recording was stopped with a solution, both tables still hold
\* their entries, and Solve moved the calibration vector of a lighthouse
C3_Witness ==
  /\ pc = "spin"
  /\ ~recording_
  /\ res = Response("true")
  /\ DOMAIN lighthouses_ = ConfiguredLighthouses
  /\ DOMAIN trackers_ = ConfiguredTrackers
  /\ \E lh \in DOMAIN lighthouses_ : lighthouses_[lh].params # 0

\* C4 as stated: in every state in which Solve is executing the recording
\* flag is already false
C4_SolveRunsIdle == (pc = "Solve") => ~recording_

\* C4 as amended: in every state in which Solve is executing the recording
\* flag is still true; it is cleared only by the step in which Solve returns
C4_SolveRunsRecording ==
  [][/\ (pc' = "Solve") => recording_'
     /\ (recording_ /\ ~recording_') => (pc = "Solve" /\ pc' = "spin")]_vars

\* C4 witness: Solve is executing on a non-empty store and the flag is set
C4_Witness ==
  /\ pc = "Solve"
  /\ recording_
  /\ DOMAIN measurements_ # {}

\* C5: between the entry of Solve and the clearing of the stores no callback
\* appends to either store: the stores are unchanged from the dispatch of the
\* trigger to the step that empties them
C5_NoIngestionDuringSolve ==
  [][/\ (TriggerRequest /\ recording_) => UNCHANGED <<measurements_, corrections_>>
     /\ (pc = "Solve") =>
          \/ UNCHANGED <<measurements_, corrections_>>
          \/ /\ pc' = "spin"
             /\ DOMAIN measurements_' = {}
             /\ DOMAIN corrections_' = {}]_vars

\* C5 witness: Solve is executing on a non-empty store while the flag is
\* still set, the entities are ready and the idle timer is due
C5_Witness ==
  /\ pc = "Solve"
  /\ recording_
  /\ DOMAIN measurements_ # {}
  /\ timer_.armed
  /\ now >= timer_.deadline

\* C6: while the recording flag is false a light or correction message leaves
\* both stores unchanged
C6_IdleIngestsNothing ==
  [][~recording_ =>
       /\ \A msg \in LightMsgs :
            LightCallback(msg) => UNCHANGED <<measurements_, corrections_>>
       /\ \A msg \in TFMsgs :
            CorrectionCallback(msg) => UNCHANGED <<measurements_, corrections_>>]_vars

\* C6 witness: a light message was handled while idle with the lighthouse and
\* the tracker ready, and the stores are empty
C6_Witness ==
  /\ ev = "light"
  /\ ~recording_
  /\ \A lh \in DOMAIN lighthouses_ : lighthouses_[lh].ready
  /\ \A tr \in DOMAIN trackers_ : trackers_[tr].ready
  /\ DOMAIN measurements_ = {}
  /\ DOMAIN corrections_ = {}

\* the message names a tracker or lighthouse that is unknown or not ready
NotReady(msg) ==
  \/ msg.tracker \notin DOMAIN trackers_
  \/ msg.lighthouse \notin DOMAIN lighthouses_
  \/ ~trackers_[msg.tracker].ready
  \/ ~lighthouses_[msg.lighthouse].ready

\* C7: a light message is stored only if its tracker and its lighthouse are
\* in the tables with ready = true; a message naming an unknown or not-ready
\* tracker or lighthouse leaves the measurement store unchanged, and no light
\* message adds an entry to either table
C7_OnlyReadyStored ==
  [][\A msg \in LightMsgs :
       LightCallback(msg) =>
         /\ UNCHANGED <<lighthouses_, trackers_>>
         /\ NotReady(msg) => UNCHANGED measurements_
         /\ (measurements_' # measurements_) =>
              /\ msg.tracker \in DOMAIN trackers_ /\ trackers_[msg.tracker].ready
              /\ msg.lighthouse \in DOMAIN lighthouses_
              /\ lighthouses_[msg.lighthouse].ready]_vars

\* C7 witness: a light message was handled while recording with the
\* lighthouse ready and the tracker not, and nothing was stored
C7_Witness ==
  /\ ev = "light"
  /\ recording_
  /\ \A lh \in DOMAIN lighthouses_ : lighthouses_[lh].ready
  /\ \A tr \in DOMAIN trackers_ : ~trackers_[tr].ready
  /\ DOMAIN measurements_ = {}
  /\ DOMAIN trackers_ = ConfiguredTrackers
  /\ DOMAIN lighthouses_ = ConfiguredLighthouses

\* C8: every stored observation has at least thresholds/count pulses, none
\* with an angle above the angle threshold and none with a duration below the
\* duration threshold
C8_StoredPulsesWithinThresholds ==
  \A t \in DOMAIN measurements_ :
    LET pulses == measurements_[t].pulses
    IN  /\ Len(pulses) >= thresh_count_
        /\ \A i \in 1..Len(pulses) :
             /\ ~(pulses[i].angle > AngleLimit)
             /\ ~(pulses[i].duration < DurationLimit)

\* C9 as stated: the idle timer is restarted by every light message that is
\* stored, and a light message that is not stored leaves the timer as it was
C9_RestartOnlyWhenStored ==
  [][\A msg \in LightMsgs :
       LightCallback(msg) =>
         IF LightAccepted(msg) THEN timer_' = TimerRestarted
                               ELSE timer_' = timer_]_vars

\* C9 as amended: the idle timer is restarted by every light message, before
\* any check: by one that is stored and equally by one received while idle,
\* from an unknown or not-ready entity, or dropped by the pulse count
C9_RestartOnEveryLight ==
  [][\A msg \in LightMsgs : LightCallback(msg) => timer_' = TimerRestarted]_vars

\* C9 witness: a light message handled while idle left the timer running
C9_Witness ==
  /\ ev = "light"
  /\ ~recording_
  /\ DOMAIN measurements_ = {}
  /\ timer_ = TimerRestarted

\* C10: whenever the idle timer fires Solve is invoked and the request ends
\* with the node idle; the timer never moves the node from idle to recording
C10_TimeoutAlwaysSolves ==
  [][/\ TimerCallback => (pc' = "Solve" /\ ~(~recording_ /\ recording_'))
     /\ (pc = "Solve" /\ ev = "timer" /\ now' = now) =>
          (pc' = "spin" /\ ~recording_')]_vars

-----------------------------------------------------------------------------
(* Properties of Solve()                                                    *)

\* C11: with no stored observation Solve returns failure without terminating
\* the process and without changing any state: the registration and both
\* tables are unchanged, no transform set is sent, no path is published and
\* no performance file is written
C11_EmptySolveChangesNothing ==
  [][(pc = "Solve" /\ DOMAIN measurements_ = {} /\ now' = now) =>
       /\ pc' = "spin"
       /\ res' = Response("false")
       /\ wTv_' = wTv_
       /\ lighthouses_' = lighthouses_
       /\ trackers_' = trackers_
       /\ sent' = sent
       /\ emitted' = {}
       /\ problem' = EmptyProblem]_vars

\* C11 witness: a trigger request that found the measurement store empty was
\* served: Solve ran once, built no problem, and failure was reported
C11_Witness ==
  /\ pc = "spin"
  /\ ~recording_
  /\ solves = 1
  /\ res = Response("false")
  /\ problem = EmptyProblem
  /\ sent = <<wTv_, lighthouses_, trackers_>>
  /\ emitted = {}

\* the (lighthouse, tracker, epoch) groups of a problem's bundle
BundleGroups(P) ==
  {GroupKey(k.lighthouse, k.tracker, k.epoch) : k \in DOMAIN P.bundle}

\* the sensors of a group with at least one sample on both axes
SensorsOnBothAxes(P, g) ==
  {s \in 0..(NUM_SENSORS - 1) :
     \A a \in {0, 1} :
       [tracker |-> g.tracker, lighthouse |-> g.lighthouse, epoch |-> g.epoch,
        sensor |-> s, axis |-> a] \in DOMAIN P.bundle}

\* the groups of a problem's bundle with at least 4 such sensors
GroupsWithFour(P) == {g \in BundleGroups(P) : Cardinality(SensorsOnBothAxes(P, g)) >= 4}

\* the groups that own a bearing residual block
BearingGroups(P) == {P.bearing[i].group : i \in 1..Len(P.bearing)}

\* C12: whenever Solve ran on a non-empty store, a bootstrap solve was
\* attempted for exactly the groups with at least 4 sensors sampled on both
\* axes; a group with 3 or fewer owns no residual block, and an epoch without
\* a group of 4 has no body pose and no pose block in the problem
C12_BootstrapIffFourSensors ==
  (pc \in {"spin", "aborted"} /\ DOMAIN problem.bundle # {}) =>
    /\ problem.count = Cardinality(GroupsWithFour(problem))
    /\ BearingGroups(problem) \subseteq GroupsWithFour(problem)
    /\ \A g \in BundleGroups(problem) :
         (\A h \in GroupsWithFour(problem) : h.epoch # g.epoch) =>
           /\ g.epoch \notin DOMAIN problem.wTb
           /\ PoseBlocks(g.epoch) \cap problem.blocks = {}

\* a step that runs Solve() on a non-empty measurement store
SolveStep == pc = "Solve" /\ DOMAIN measurements_ # {} /\ now' = now

\* C13: when refine_registration_ is false, every Solve on any non-empty
\* measurement set marks the registration block constant and leaves the six
\* parameters of the registration as they were
C13_RegistrationFrozen ==
  [][(SolveStep /\ ~cfg.refine_registration_) =>
       /\ RegistrationBlock \in problem'.constant
       /\ wTv_' = wTv_]_vars

\* the blocks of kind k that a problem holds constant
ConstantOfKind(P, k) == {b \in P.constant : b.kind = k}

\* C14: in every Solve on a non-empty store the pose of the first lighthouse
\* in serial order is held constant, whatever refine_lighthouses_ is; when
\* refine_lighthouses_ is true it is the only lighthouse pose held constant
C14_FirstLighthouseFixed ==
  (pc \in {"spin", "aborted"} /\ DOMAIN problem.bundle # {}) =>
    /\ Blk("vTl", FirstLighthouse, NoEpoch) \in problem.constant
    /\ cfg.refine_lighthouses_ =>
         ConstantOfKind(problem, "vTl") = {Blk("vTl", FirstLighthouse, NoEpoch)}

\* the flag that frees block b: the first lighthouse's pose has none
FlagOf(b) ==
  CASE b.kind = "wTv" -> "refine_registration_"
    [] b.kind = "vTl" -> "refine_lighthouses_"
    [] b.kind = "params" -> "refine_params_"
    [] b.kind = "bTh" -> "refine_extrinsics_"
    [] b.kind = "tTh" -> "refine_head_"
    [] b.kind = "sensors" -> "refine_sensors_"

\* the registration, lighthouse and tracker blocks of a problem, the pose of
\* the first lighthouse excepted
FlaggedBlocks(P) ==
  {b \in P.blocks : b.epoch = NoEpoch /\ b # Blk("vTl", FirstLighthouse, NoEpoch)}

\* C15: in every Solve on a non-empty store each refinement flag freezes
\* exactly its own class: a registration, non-first lighthouse pose,
\* calibration, head/body, light or sensor block of the problem is constant
\* if and only if the flag of its class is false, so no flag changes the
\* constancy of a block of another class
C15_FlagFreezesOwnClass ==
  (pc \in {"spin", "aborted"} /\ DOMAIN problem.bundle # {}) =>
    \A b \in FlaggedBlocks(problem) :
      (b \in problem.constant) <=> ~cfg[FlagOf(b)]

\* Solve() ran on a non-empty store and returned: its problem went to ceres
ProblemSolved == pc = "spin" /\ DOMAIN problem.bundle # {} /\ ~problem.aborted

\* the groups whose seeded height was fed to the height statistic
SeededHeights(P) == {P.heights[i] : i \in 1..Len(P.heights)}

\* C16: with force2d_ set, every body pose of a problem that went to ceres has
\* its height and its two horizontal rotation components constant, the height
\* equal to the mean of the heights seeded by all bootstrapped groups and the
\* two rotation components equal to 0, while its horizontal position and its
\* rotation about the vertical axis are free
C16_PlanarPoses ==
  (ProblemSolved /\ cfg.force2d_) =>
    /\ SeededHeights(problem) = BearingGroups(problem)
    /\ Len(problem.heights) = Len(problem.bearing)
    /\ \A e \in DOMAIN problem.wTb :
         /\ PoseBlocks(e) \subseteq problem.blocks
         /\ Blk("pos_z", "", e) \in problem.constant
         /\ Blk("rot_xy", "", e) \in problem.constant
         /\ Blk("pos_xy", "", e) \notin problem.constant
         /\ Blk("rot_z", "", e) \notin problem.constant
         /\ problem.wTb[e].pos_z = MeanValue(problem.heights)
         /\ problem.wTb[e].rot_xy = ZeroValue

\* C16 witness: a planar solve of two body poses that found a solution: both
\* heights are the mean of the two seeded heights and stayed so
C16_Witness ==
  /\ ProblemSolved /\ cfg.force2d_ /\ res.success
  /\ Cardinality(DOMAIN problem.wTb) = 2
  /\ Len(problem.heights) = 2
  /\ \A e \in DOMAIN problem.wTb :
       /\ problem.wTb[e].pos_z = MeanValue(problem.heights)
       /\ problem.wTb[e].pos_xy = SolvedValue

\* the pairs of time-adjacent epochs of a set of epochs
AdjacentEpochs(E) ==
  {<<p, n>> \in E \X E : p < n /\ \A m \in E : ~(p < m /\ m < n)}

\* the (previous, next) pairs linked by the motion residual blocks
MotionLinks(P) == {<<P.motion[i].prev, P.motion[i].next>> : i \in 1..Len(P.motion)}

\* C17: a problem that went to ceres with smoothing_ > 0 holds exactly one
\* motion residual block for every pair of time-adjacent body pose epochs
\* (one less than there are body poses) and no other; with smoothing_ <= 0 it
\* holds none
C17_OneMotionBlockPerAdjacentPair ==
  ProblemSolved =>
    IF cfg.smoothing_ > 0
    THEN /\ MotionLinks(problem) = AdjacentEpochs(DOMAIN problem.wTb)
         /\ Len(problem.motion) = Cardinality(AdjacentEpochs(DOMAIN problem.wTb))
    ELSE problem.motion = <<>>

\* the orders in which the elements of S can be walked
Orders(S) ==
  {p \in [1..Cardinality(S) -> S] : \A i, j \in 1..Cardinality(S) : p[i] = p[j] => i = j}

\* a bucket as a multiset: how often each sample occurs in it
Multiset(q) == [v \in {q[i] : i \in 1..Len(q)} |-> Cardinality({i \in 1..Len(q) : q[i] = v})]

\* the multiple of the resolution nearest to clock reading t, the upper one
\* when t lies halfway
RoundedTime(t) ==
  CHOOSE e \in {res_ * i : i \in 0..Horizon} : 2 * (e - t) <= res_ /\ 2 * (t - e) < res_

\* the buckets that hold a pulse when each observation of store M is filed
\* under its rounded time
RoundedKeys(M) ==
  {[tracker |-> M[t].tracker, lighthouse |-> M[t].lighthouse,
    epoch |-> RoundedTime(t), sensor |-> M[t].pulses[i].sensor, axis |-> M[t].axis] :
     <<t, i>> \in {x \in (DOMAIN M) \X (1..(MaxPulses + 1)) : x[2] <= Len(M[x[1]].pulses)}}

\* C18: the bundle Solve builds files every observation under
\* round(timestamp / resolution) * resolution, and walking the stored
\* observations in any order fills every (tracker, lighthouse, epoch, sensor,
\* axis) bucket with the same multiset of samples as Solve's bundle has
C18_BundlingOrderIndependent ==
  [][SolveStep =>
       /\ DOMAIN problem'.bundle = RoundedKeys(measurements_)
       /\ \A ts \in Orders(DOMAIN measurements_) :
            \A k \in DOMAIN problem'.bundle :
              Multiset(SamplesFrom(measurements_, ts, k.tracker, k.lighthouse,
                                   k.epoch, k.sensor, k.axis))
                = Multiset(problem'.bundle[k])]_vars

\* C18 witness: Solve bundled two observations of one epoch into one bucket,
\* which holds their two different samples
C18_Witness ==
  /\ pc \in {"spin", "aborted"} /\ solves >= 1
  /\ \E k \in DOMAIN problem.bundle :
       /\ Len(problem.bundle[k]) = 2
       /\ problem.bundle[k][1] # problem.bundle[k][2]

\* C19: when ceres reports no usable solution, Solve returns false and the
\* trigger caller gets success = false with the "Solution not found" message;
\* the registration and both tables are as before, no transform set is sent,
\* no path is published and no performance file is written.  Conversely a
\* transform set is sent by a Solve only when ceres reported a usable solution
C19_UnusableChangesNothing ==
  [][SolveStep =>
       /\ problem'.summary = "unusable" =>
            /\ pc' = "spin"
            /\ res' = [success |-> FALSE,
                       message |-> "Recording stopped. Solution not found."]
            /\ wTv_' = wTv_
            /\ lighthouses_' = lighthouses_
            /\ trackers_' = trackers_
            /\ sent' = sent
            /\ emitted' = {}
       /\ ("transforms" \in emitted' \/ sent' # sent) =>
            /\ problem'.summary = "usable"
            /\ res'.success]_vars

\* C19 witness: a Solve whose problem went to ceres and came back without a
\* usable solution was answered with failure
C19_Witness ==
  /\ pc = "spin"
  /\ problem.summary = "unusable"
  /\ problem.count >= 1
  /\ ~res.success
  /\ emitted = {}

\* what Solve did, the bundled corrections and the ground-truth path left out
WithoutCorrections(r) ==
  [r EXCEPT !.problem = [@ EXCEPT !.corr = EmptyMap, !.truth = {}]]

\* C20: whatever Solve is about to do with the stored corrections, it does
\* with every other correction store, the empty one included, for the same
\* outcomes of the pose solves and of the optimizer: the same seeds, residual
\* blocks, constant blocks, tables, registration and return value; only the
\* bundled corrections and the ground-truth path differ
C20_CorrectionsDoNotInfluence ==
  (pc = "Solve" /\ DOMAIN measurements_ # {}) =>
    \A bo \in BuildOracles(measurements_, lighthouses_, trackers_) :
      LET P == BuildProblem(measurements_, corrections_, lighthouses_, trackers_,
                            cfg, bo)
      IN  \A C \in SessionCorrections \ {corrections_} :
            LET Q == BuildProblem(measurements_, C, lighthouses_, trackers_, cfg, bo)
            IN  /\ SolveOracles(Q) = SolveOracles(P)
                /\ \A so \in SolveOracles(P) :
                     WithoutCorrections(Optimize(Q, lighthouses_, trackers_, wTv_, cfg, so))
                       = WithoutCorrections(Optimize(P, lighthouses_, trackers_, wTv_,
                                                     cfg, so))

\* C20 witness: a Solve with a stored correction found a solution and wrote
\* the ground-truth pose of an epoch that has a body pose
C20_Witness ==
  /\ pc = "spin" /\ res.success
  /\ problem.truth # {}
  /\ problem.truth \subseteq DOMAIN problem.wTb
  /\ DOMAIN problem.corr # {}

-----------------------------------------------------------------------------
(* Properties of the bootstrap loops                                        *)

\* Solve() ran on a non-empty store: it returned or the process was terminated
SolveRan == pc \in {"spin", "aborted"} /\ DOMAIN problem.bundle # {}

\* the groups whose pose solve failed
FailedGroups(P) == {P.failed[i] : i \in 1..Len(P.failed)}

\* the epochs some motion residual block refers to
MotionEpochs(P) == UNION {{P.motion[i].prev, P.motion[i].next} : i \in 1..Len(P.motion)}

\* C21: a failed pose solve is absorbed by its epoch.  A group of at least 4
\* correspondences whose perspective-pose solve failed owns no bearing
\* residual block and fed no height; unless another group bootstrapped the
\* same epoch, the epoch has no body pose, no pose block and no motion
\* residual block; and the later epochs of the same lighthouse and tracker
\* were processed all the same
C21_FailureAbsorbedPerEpoch ==
  SolveRan =>
    /\ problem.count = Len(problem.bearing) + Len(problem.failed)
    /\ \A g \in FailedGroups(problem) :
         /\ g \in GroupsWithFour(problem)
         /\ g \notin BearingGroups(problem)
         /\ g \notin SeededHeights(problem)
         /\ (\A h \in BearingGroups(problem) : h.epoch # g.epoch) =>
              /\ g.epoch \notin DOMAIN problem.wTb
              /\ PoseBlocks(g.epoch) \cap problem.blocks = {}
              /\ g.epoch \notin MotionEpochs(problem)
         /\ \A h \in GroupsWithFour(problem) :
              (h.lighthouse = g.lighthouse /\ h.tracker = g.tracker /\ h.epoch > g.epoch)
                => h \in BearingGroups(problem) \cup FailedGroups(problem)

\* C21 witness: the pose solve of a group failed and a later epoch of the same
\* lighthouse and tracker was bootstrapped
C21_Witness ==
  /\ SolveRan
  /\ \E g \in FailedGroups(problem) :
       \E h \in BearingGroups(problem) :
         /\ h.lighthouse = g.lighthouse /\ h.tracker = g.tracker /\ h.epoch > g.epoch
         /\ DOMAIN problem.wTb = {h.epoch}

\* the epochs of the pose blocks a problem holds
PoseBlockEpochs(P) == {b.epoch : b \in {x \in P.blocks : x.epoch # NoEpoch}}

\* C22: every body pose block a residual block refers to, bearing or motion,
\* as the current or as the previous epoch, belongs to an epoch that was
\* seeded with a pose: the problem holds no pose block of an epoch that is
\* not in the pose table
C22_PoseBlocksSeeded ==
  SolveRan =>
    /\ \A g \in BearingGroups(problem) : g.epoch \in DOMAIN problem.wTb
    /\ MotionEpochs(problem) \subseteq DOMAIN problem.wTb
    /\ PoseBlockEpochs(problem) \subseteq DOMAIN problem.wTb

\* C23: Solve on a non-empty measurement store is never terminated and returns
\* a boolean: every block it marks constant was added to the problem before
C23_SolveNeverAborts ==
  [][SolveStep =>
       /\ pc' = "spin"
       /\ ~problem'.aborted
       /\ problem'.constant \subseteq problem'.blocks
       /\ res' \in {Response("true"), Response("false")}]_vars


\* the (sensor, axis) pairs of a group with at least one sample in the bundle
SampledPairs(P, g) ==
  {<<k.sensor, k.axis>> :
     k \in {x \in DOMAIN P.bundle :
              GroupKey(x.lighthouse, x.tracker, x.epoch) = g}}

-----------------------------------------------------------------------------
(* Properties of the stores between recordings                              *)

\* C25: whenever the recording flag is false, the measurement store and the
\* correction store are both empty
C25_IdleStoresEmpty ==
  ~recording_ => (measurements_ = EmptyMap /\ corrections_ = EmptyMap)

\* the node is idle after a recording was stopped by a solve, and a light or
\* correction message was handled since
C25_Witness ==
  /\ ~recording_
  /\ solves > 0
  /\ pc = "spin"
  /\ ev \in {"light", "correction"}
  /\ measurements_ = EmptyMap
  /\ corrections_ = EmptyMap


\* C26: a light message LightCallback accepts adds one entry to the
\* measurement store and leaves every entry stored before as it was, so that
\* the store holds one entry per accepted observation when Solve starts
C26_AcceptedObservationKept ==
  [][\A msg \in LightMsgs :
       (LightCallback(msg) /\ LightAccepted(msg)) =>
         /\ Cardinality(DOMAIN measurements_') = Cardinality(DOMAIN measurements_) + 1
         /\ \A t \in DOMAIN measurements_ :
              t \in DOMAIN measurements_' /\ measurements_'[t] = measurements_[t]]_vars


-----------------------------------------------------------------------------
(* Properties of the body pose table                                        *)

\* the epochs wTb holds once the i-th bearing block was added
EpochsSeeded(P, i) == {P.bearing[k].group.epoch : k \in 1..i}

\* the epochs of wTb strictly earlier than that of the i-th bootstrapped group,
\* when that group was bootstrapped
EarlierEpochs(P, i) ==
  {e \in EpochsSeeded(P, i) : e < P.bearing[i].group.epoch}

RECURSIVE LinksToPredecessor(_, _)
\* the motion blocks of the first i bootstrapped groups when each group with
\* an earlier epoch in wTb is linked to the latest of them, and no other
LinksToPredecessor(P, i) ==
  IF i = 0 THEN <<>>
  ELSE IF EarlierEpochs(P, i) = {} THEN LinksToPredecessor(P, i - 1)
  ELSE Append(LinksToPredecessor(P, i - 1),
              [prev |-> MaxOf(EarlierEpochs(P, i)),
               next |-> P.bearing[i].group.epoch])

\* C27: whenever Solve ran on a non-empty store with smoothing_ > 0, the
\* motion blocks are those that link each bootstrapped epoch to the latest
\* strictly earlier epoch wTb held when it was bootstrapped; an epoch that was
\* the earliest of wTb when it was bootstrapped got no motion block
C27_MotionOnlyWithPredecessor ==
  (SolveRan /\ cfg.smoothing_ > 0) =>
    problem.motion = LinksToPredecessor(problem, Len(problem.bearing))


\* the bootstrapped groups of epoch e
GroupsOfEpoch(P, e) == {g \in BearingGroups(P) : g.epoch = e}

\* the place of a serial in map order
SerialRank(s) == CHOOSE i \in 1..Len(SerialOrder) : SerialOrder[i] = s

\* pair g is processed before pair h: lighthouse-major, then by tracker
ProcessedBefore(g, h) ==
  \/ SerialRank(g.lighthouse) < SerialRank(h.lighthouse)
  \/ /\ g.lighthouse = h.lighthouse
     /\ SerialRank(g.tracker) < SerialRank(h.tracker)

\* the bootstrapped group of epoch e that was processed last
LastGroup(P, e) ==
  CHOOSE g \in GroupsOfEpoch(P, e) :
    \A h \in GroupsOfEpoch(P, e) : h = g \/ ProcessedBefore(h, g)

\* C28: whenever Solve ran on a non-empty store, every bootstrapped epoch has
\* one body pose and one set of pose blocks, keyed by the epoch alone, which
\* the bearing block of every group of that epoch refers to; unless ceres
\* returned a usable solution the pose holds the seed of the group processed
\* last (lighthouse-major, then tracker order); every bootstrapped group fed
\* its height, and with force2d_ the height of a pose that went to ceres is
\* the mean over all of them
C28_PoseKeyedByEpoch ==
  SolveRan =>
    /\ DOMAIN problem.wTb = {g.epoch : g \in BearingGroups(problem)}
    /\ \A e \in DOMAIN problem.wTb :
         /\ {b \in problem.blocks : b.epoch = e} = PoseBlocks(e)
         /\ \A g \in GroupsOfEpoch(problem, e) :
              PoseBlocks(e) \subseteq GroupBlocks(g) \cap problem.blocks
         /\ problem.summary # "usable" =>
              /\ problem.wTb[e].pos_xy = SeedValue(LastGroup(problem, e))
              /\ problem.wTb[e].rot_z = SeedValue(LastGroup(problem, e))
         /\ (cfg.force2d_ /\ ~problem.aborted) =>
              problem.wTb[e].pos_z = MeanValue(problem.heights)
    /\ problem.heights = [i \in 1..Len(problem.bearing) |-> problem.bearing[i].group]

\* Solve went to ceres with force2d_ on a problem in which two different
\* pairs bootstrapped the same epoch, and ceres found no usable solution
C28_Witness ==
  /\ ProblemSolved
  /\ cfg.force2d_
  /\ problem.summary = "unusable"
  /\ \E e \in DOMAIN problem.wTb : Cardinality(GroupsOfEpoch(problem, e)) = 2


-----------------------------------------------------------------------------
(* Properties of the idle timer                                             *)

\* C29: the idle timer is stopped when the node starts, only a light message
\* arms it, and when it fires it is stopped in the same step: it fakes at most
\* one trigger between two light messages and none before the first
C29_TimerOneShot ==
  /\ ~timer_.armed
  /\ [][/\ TimerCallback => (timer_.armed /\ ~timer_'.armed)
        /\ (~timer_.armed /\ timer_'.armed) =>
             \E msg \in LightMsgs : LightCallback(msg)]_vars

\* the timer fired and is stopped, no light message having arrived since
C29_Witness ==
  /\ ev = "timer"
  /\ ~timer_.armed
  /\ now >= StartTime + TimerPeriod


-----------------------------------------------------------------------------
(* Properties of the filter node                                            *)

\* what a callback of the filter node that ran a prediction step must have
\* done: Delta was called, and the step is the time since the previous call
\* of Delta, strictly between 0 and 1 s
PredictedWithValidStep ==
  did'.predicted =>
    /\ did'.delta
    /\ did'.dt = clock - last_
    /\ 0 < did'.dt /\ did'.dt < OneSecond

\* C30: in the filter node a prediction step is run only with 0 < dt < 1 s
\* measured from the previous call of Delta; every call of Delta sets last_ to
\* the clock reading, also when it rejects; before initialized_ is set the
\* timer callback calls nothing, predicts nothing and broadcasts nothing;
\* initialized_ is set only by a light message that was processed to its end;
\* a light message is ignored while ready_ is false or its serial differs
C30_FilterGuards ==
  [][/\ \A msg \in LightMsgs, found \in BOOLEAN :
          FilterLightCallback(msg, found) =>
            /\ (~ready_ \/ msg.tracker # serial_) =>
                 (~did'.delta /\ ~did'.predicted /\ UNCHANGED <<last_, initialized_>>)
            /\ did'.delta => last_' = clock
            /\ PredictedWithValidStep
            /\ ~did'.broadcast
     /\ FilterTimerCallback =>
          /\ ~initialized_ =>
               (~did'.delta /\ ~did'.predicted /\ ~did'.broadcast /\ last_' = last_)
          /\ did'.delta => last_' = clock
          /\ PredictedWithValidStep
          /\ did'.broadcast => did'.predicted
     /\ (initialized_' /\ ~initialized_) => (did'.by = "light" /\ did'.predicted)
     /\ last_' # last_ => did'.delta]_vars

\* after a light message had initialized the filter, the timer callback
\* predicted with a step of half a second and broadcast the pose
C30_Witness ==
  /\ initialized_
  /\ did.by = "timer"
  /\ did.predicted
  /\ did.broadcast
  /\ 2 * did.dt = OneSecond
  /\ last_ = clock

=============================================================================
